---- MODULE Spec2Model ----
(***************************************************************************)
(* vecsort.c: deduplicating segment store (vector_create), greedy nearest  *)
(* endpoint sequencing (vector_find_closest, vector_optimize) and the      *)
(* long-transit refinement (vector_refine) over a linked list whose nodes  *)
(* carry a next pointer and a pointer to the slot that points at them.     *)
(*                                                                         *)
(* Coordinates are doubles in the source.  The model draws them from a     *)
(* grid on which every pairwise distance (and every distance to the        *)
(* origin) is a whole number, so sqrt() and the sums of transits are exact *)
(* and |x-y| < 1e-8 is the same as x = y.                                  *)
(***************************************************************************)
EXTENDS Integers, Sequences, FiniteSets, TLC

\* Number of nodes calloc may hand out (the size of the job).
MaxSegs == 3

\* The grid: a 90/400/410 triangle with its mirror image, and one point
\* further than sqrt(1e9) from the others; 39999^2 + 400^2 = 40001^2.
Points == { <<90, 0>>, <<-90, 0>>, <<0, 400>>, <<39999, 0>> }

\* generate_vectors' pen starts at the origin
Origin == <<0, 0>>

Nodes == 1..MaxSegs

\* The C null pointer (for vector_t * and for vector_t **).
NULL == 0
\* The address of the store's head field, &vectors->vectors.  A slot n > 0 is
\* the address of node n's next field, &n->next.
RootSlot == -1

\* best_dist / min_dist start value
BestDistInit == 1000000000

VARIABLES
    mem,        \* node -> [x1, y1, x2, y2, next, prev]
    vectors,    \* vs->vectors, the head of the store and later of the chain
    nalloc,     \* nodes handed out by calloc so far
    created,    \* the last vector_create call: its arguments, the store it was given
    phase,      \* "parse", "optimize", "refine", "done", "aborted"
    lx, ly,     \* generate_vectors' pen position
    loc,        \* vector_optimize's locals: vs, vs_tail, cx, cy
    taken,      \* the last vector_find_closest call: argument store, point, best, do_reverse
    input,      \* the store as it was handed to vector_optimize
    rf          \* the last vector_refine call: chain on entry, locals, return value

vars == <<mem, vectors, nalloc, created, phase, lx, ly, loc, taken, input, rf>>

----------------------------------------------------------------------------
\* Arithmetic

Abs(x) == IF x < 0 THEN -x ELSE x

\* fpeq: fabs(x-y) < 1e-8; on whole numbers that is x = y
Fpeq(x, y) == Abs(x - y) < 1

RECURSIVE SqrtSearch(_, _, _)
SqrtSearch(n, lo, hi) ==
    IF lo = hi THEN lo
    ELSE LET mid == (lo + hi + 1) \div 2
         IN  IF mid * mid <= n THEN SqrtSearch(n, mid, hi)
             ELSE SqrtSearch(n, lo, mid - 1)

\* sqrt() of a whole number that is a square
Sqrt(n) == SqrtSearch(n, 0, 46340)

----------------------------------------------------------------------------
\* The heap: the nodes and the store's head field

ZeroNode == [x1 |-> 0, y1 |-> 0, x2 |-> 0, y2 |-> 0, next |-> NULL, prev |-> NULL]

Heap == [mem |-> mem, root |-> vectors]

\* *slot
Load(h, slot) == IF slot = RootSlot THEN h.root ELSE h.mem[slot].next

\* *slot = v
StoreSlot(h, slot, v) ==
    IF slot = RootSlot THEN [h EXCEPT !.root = v]
    ELSE [h EXCEPT !.mem[slot].next = v]

\* n->prev = slot
SetPrev(h, n, slot) == [h EXCEPT !.mem[n].prev = slot]

\* The nodes reached from v along next, at most fuel of them.
RECURSIVE Walk(_, _, _)
Walk(h, v, fuel) ==
    IF v = NULL \/ fuel = 0 THEN << >>
    ELSE <<v>> \o Walk(h, h.mem[v].next, fuel - 1)

ListFrom(h, v) == Walk(h, v, MaxSegs + 1)

\* A node's segment as <<A, B>>
SegOf(h, n) == << <<h.mem[n].x1, h.mem[n].y1>>, <<h.mem[n].x2, h.mem[n].y2>> >>

\* The segments of the list from v, in list order, each with its node
SegsFrom(h, v) ==
    LET l == ListFrom(h, v)
    IN  [i \in 1..Len(l) |-> [id |-> l[i], seg |-> SegOf(h, l[i])]]

----------------------------------------------------------------------------
\* vector_create

\* A scan that misses the check for the reverse of an existing segment
RECURSIVE CreateScanSameOrderOnly(_, _, _, _, _, _)
CreateScanSameOrderOnly(h, iter, x1, y1, x2, y2) ==
    LET p == Load(h, iter)
    IN  IF p = NULL THEN iter
        ELSE LET n == h.mem[p]
             IN  IF Fpeq(n.x1, x1) /\ Fpeq(n.y1, y1) /\ Fpeq(n.x2, x2) /\ Fpeq(n.y2, y2)
                     THEN NULL
                 ELSE IF Fpeq(x1, x2) /\ Fpeq(y1, y2)
                     THEN NULL
                 ELSE CreateScanSameOrderOnly(h, p, x1, y1, x2, y2)

\* The scan for the end of the list: the slot to append at, or NULL when the
\* segment is dropped.
RECURSIVE CreateScan(_, _, _, _, _, _)
CreateScan(h, iter, x1, y1, x2, y2) ==
    LET p == Load(h, iter)
    IN  IF p = NULL THEN iter
        ELSE LET n == h.mem[p]
             IN  IF Fpeq(n.x1, x1) /\ Fpeq(n.y1, y1) /\ Fpeq(n.x2, x2) /\ Fpeq(n.y2, y2)
                     THEN NULL
                 ELSE IF Fpeq(n.x1, x2) /\ Fpeq(n.y1, y2) /\ Fpeq(n.x2, x1) /\ Fpeq(n.y2, y1)
                     THEN NULL
                 ELSE IF Fpeq(x1, x2) /\ Fpeq(y1, y2)
                     THEN NULL
                 ELSE CreateScan(h, p, x1, y1, x2, y2)

\* The heap after vector_create(&vectors, x1, y1, x2, y2), v being the node
\* calloc returns.
vector_create(h, v, x1, y1, x2, y2) ==
    LET iter == CreateScan(h, RootSlot, x1, y1, x2, y2)
    IN  IF iter = NULL THEN h
        ELSE LET h1 == [h EXCEPT !.mem[v] =
                          [x1 |-> x1, y1 |-> y1, x2 |-> x2, y2 |-> y2,
                           next |-> NULL, prev |-> iter]]
             IN  StoreSlot(h1, iter, v)

----------------------------------------------------------------------------
\* vector_find_closest

Sq(x) == x * x

\* if (dist < best_dist) { best = v; best_dist = dist; do_reverse = rev; }
Consider(acc, v, dist, rev) ==
    IF dist < acc.best_dist
    THEN [best |-> v, best_dist |-> dist, do_reverse |-> rev]
    ELSE acc

\* The while loop: acc holds best, best_dist, do_reverse.
RECURSIVE ClosestScan(_, _, _, _, _)
ClosestScan(h, v, px, py, acc) ==
    IF v = NULL THEN acc
    ELSE ClosestScan(h, h.mem[v].next, px, py,
            Consider(Consider(acc, v,
                              Sq(px - h.mem[v].x1) + Sq(py - h.mem[v].y1), 0),
                     v, Sq(px - h.mem[v].x2) + Sq(py - h.mem[v].y2), 1))

\* if (best->prev) *best->prev = best->next
UnlinkPrev(h, b) ==
    IF h.mem[b].prev # NULL THEN StoreSlot(h, h.mem[b].prev, h.mem[b].next) ELSE h

\* if (best->next) best->next->prev = best->prev
UnlinkNext(h, b) ==
    IF h.mem[b].next # NULL THEN SetPrev(h, h.mem[b].next, h.mem[b].prev) ELSE h

\* if (do_reverse) flip the x1/x2 and y1/y2
Reverse(h, b, do_reverse) ==
    IF do_reverse = 1
    THEN [h EXCEPT !.mem[b].x1 = h.mem[b].x2, !.mem[b].y1 = h.mem[b].y2,
                   !.mem[b].x2 = h.mem[b].x1, !.mem[b].y2 = h.mem[b].y1]
    ELSE h

\* best->next = NULL; best->prev = NULL
Detach(h, b) == [h EXCEPT !.mem[b].next = NULL, !.mem[b].prev = NULL]

\* The function after its loop, r being the loop's best and do_reverse.
TakeOut(h, r) ==
    IF r.best = NULL THEN [h |-> h, best |-> NULL, do_reverse |-> 0]
    ELSE [h |-> Detach(Reverse(UnlinkNext(UnlinkPrev(h, r.best), r.best),
                               r.best, r.do_reverse), r.best),
          best |-> r.best, do_reverse |-> r.do_reverse]

vector_find_closest(h, v, px, py) ==
    TakeOut(h, ClosestScan(h, v, px, py,
                [best |-> NULL, best_dist |-> BestDistInit, do_reverse |-> 0]))

----------------------------------------------------------------------------
\* vector_optimize

NoLocals == [vs |-> NULL, vs_tail |-> NULL, cx |-> 0, cy |-> 0]

\* Add v to the tail of the list vs (or start the list with it).
AddTail(h, l, v) ==
    IF l.vs = NULL THEN h
    ELSE [h EXCEPT !.mem[v].next = NULL, !.mem[v].prev = l.vs_tail,
                   !.mem[l.vs_tail].next = v]

\* The body of the while loop once vector_find_closest has returned r.
Place(l, r) ==
    IF r.best = NULL
    THEN [h |-> r.h, l |-> l, abort |-> TRUE, best |-> NULL, do_reverse |-> 0]
    ELSE [h |-> AddTail(r.h, l, r.best),
          l |-> [vs |-> IF l.vs = NULL THEN r.best ELSE l.vs,
                 vs_tail |-> r.best,
                 cx |-> r.h.mem[r.best].x2,
                 cy |-> r.h.mem[r.best].y2],
          abort |-> FALSE, best |-> r.best, do_reverse |-> r.do_reverse]

\* One pass of the while loop over *vectors = *slot, l holding vs, vs_tail, cx, cy.
OptimizeIter(h, slot, l) ==
    Place(l, vector_find_closest(h, Load(h, slot), l.cx, l.cy))

\* After the loop: *vectors = vs; if (vs) vs->prev = vectors
OptimizeExit(h, slot, l) ==
    IF l.vs # NULL THEN SetPrev(StoreSlot(h, slot, l.vs), l.vs, slot)
    ELSE StoreSlot(h, slot, l.vs)

RECURSIVE OptimizeLoop(_, _, _)
RECURSIVE OptimizeCont(_, _)

\* r is what one pass of the loop left: abort, or go round again
OptimizeCont(slot, r) ==
    IF r.abort THEN [h |-> r.h, l |-> r.l, abort |-> TRUE]
    ELSE OptimizeLoop(r.h, slot, r.l)

OptimizeLoop(h, slot, l) ==
    IF Load(h, slot) # NULL
    THEN OptimizeCont(slot, OptimizeIter(h, slot, l))
    ELSE [h |-> OptimizeExit(h, slot, l), l |-> l, abort |-> FALSE]

\* vector_optimize(slot, &px, &py): the heap, the pen position written back
\* (l.cx, l.cy), or abort.
vector_optimize(h, slot, px, py) ==
    OptimizeLoop(h, slot, [vs |-> NULL, vs_tail |-> NULL, cx |-> px, cy |-> py])

----------------------------------------------------------------------------
\* vector_transit_len

\* if (transit_len != 0) transit_len_sum += transit_len
AddTransit(transit_len_sum, transit_len) ==
    IF transit_len # 0 THEN transit_len_sum + transit_len ELSE transit_len_sum

RECURSIVE TransitScan(_, _, _, _, _)
TransitScan(h, v, qx, qy, transit_len_sum) ==
    IF v = NULL THEN transit_len_sum
    ELSE TransitScan(h, h.mem[v].next, h.mem[v].x2, h.mem[v].y2,
            AddTransit(transit_len_sum,
                       Sqrt(Sq(qx - h.mem[v].x1) + Sq(qy - h.mem[v].y1))))

vector_transit_len(h, v) == TransitScan(h, v, Origin[1], Origin[2], 0)

----------------------------------------------------------------------------
\* vector_refine

\* if (!fpeq(transit_len, 0) && max_transit < transit_len)
Longer(max_transit, transit_len) ==
    ~Fpeq(transit_len, 0) /\ max_transit < transit_len

RECURSIVE LongestScan(_, _, _, _, _, _)
RECURSIVE LongestNext(_, _, _, _, _)

\* "find the longest transit": transit_v after the first while loop
LongestScan(h, v, qx, qy, max_transit, transit_v) ==
    IF v = NULL THEN transit_v
    ELSE LongestNext(h, v, max_transit, transit_v,
                     Sqrt(Sq(qx - h.mem[v].x1) + Sq(qy - h.mem[v].y1)))

LongestNext(h, v, max_transit, transit_v, transit_len) ==
    IF Longer(max_transit, transit_len)
    THEN LongestScan(h, h.mem[v].next, h.mem[v].x2, h.mem[v].y2, transit_len, v)
    ELSE LongestScan(h, h.mem[v].next, h.mem[v].x2, h.mem[v].y2, max_transit, transit_v)

\* A scan that keeps the first of the equally close candidates
SkipTies(min_dist, dist) == min_dist <= dist

\* if (min_dist < dist) continue;
Skip(min_dist, dist) == min_dist < dist

RECURSIVE PriorScan(_, _, _, _, _)
RECURSIVE PriorNext(_, _, _, _, _, _)

\* "find the closest end point prior to this transit": closest after the for loop
PriorScan(h, v, transit_v, min_dist, closest) ==
    IF v = transit_v THEN closest
    ELSE PriorNext(h, v, transit_v, min_dist, closest,
                   Sq(h.mem[v].x2 - h.mem[transit_v].x1)
                   + Sq(h.mem[v].y2 - h.mem[transit_v].y1))

PriorNext(h, v, transit_v, min_dist, closest, dist) ==
    IF Skip(min_dist, dist)
    THEN PriorScan(h, h.mem[v].next, transit_v, min_dist, closest)
    ELSE PriorScan(h, h.mem[v].next, transit_v, dist, v)

\* "remove transit_v from the list"
Remove(h, transit_v) == UnlinkPrev(UnlinkNext(h, transit_v), transit_v)

\* A re-insertion that forgets what followed closest
InsertAfterDropsTail(h, transit_v, closest) ==
    [h EXCEPT !.mem[transit_v].next = NULL,
              !.mem[transit_v].prev = closest,
              !.mem[closest].next = transit_v]

\* "re-insert it after the closest one", up to closest->next = transit_v
InsertAfter(h, transit_v, closest) ==
    [h EXCEPT !.mem[transit_v].next = h.mem[closest].next,
              !.mem[transit_v].prev = closest,
              !.mem[closest].next = transit_v]

\* if (transit_v->next) transit_v->next->prev = &transit_v->next
FixAfter(h, transit_v) ==
    IF h.mem[transit_v].next # NULL
    THEN SetPrev(h, h.mem[transit_v].next, transit_v)
    ELSE h

Relink(h, transit_v, closest) ==
    FixAfter(InsertAfter(Remove(h, transit_v), transit_v, closest), transit_v)

\* return 0 before anything is moved
RefineEarly(h, vector, px, py, transit_v, closest) ==
    [h |-> h, ret |-> 0, cx |-> px, cy |-> py, abort |-> FALSE,
     transit_v |-> transit_v, closest |-> closest,
     initial |-> vector_transit_len(h, vector),
     new |-> vector_transit_len(h, vector)]

\* The difference taken the wrong way round
ReductionSwapped(initial_transit_len, new_transit_len) ==
    new_transit_len - initial_transit_len

\* return initial_transit_len - new_transit_len
Reduction(initial_transit_len, new_transit_len) ==
    initial_transit_len - new_transit_len

\* The end of the function, o being what vector_optimize left.
RefineResult(h, vector, transit_v, closest, o) ==
    [h |-> o.h,
     ret |-> IF o.abort THEN 0
             ELSE Reduction(vector_transit_len(h, vector),
                            vector_transit_len(o.h, vector)),
     cx |-> o.l.cx, cy |-> o.l.cy, abort |-> o.abort,
     transit_v |-> transit_v, closest |-> closest,
     initial |-> vector_transit_len(h, vector),
     new |-> IF o.abort THEN 0 ELSE vector_transit_len(o.h, vector)]

\* A re-sort that starts at closest, and so takes transit_v with it
RefineSortFromClosest(h, vector, transit_v, closest, h5) ==
    RefineResult(h, vector, transit_v, closest,
                 vector_optimize(h5, closest,
                                 h5.mem[closest].x2, h5.mem[closest].y2))

\* "now sort the ones that come after it", h5 being the relinked heap
RefineSort(h, vector, transit_v, closest, h5) ==
    RefineResult(h, vector, transit_v, closest,
                 vector_optimize(h5, transit_v,
                                 h5.mem[transit_v].x2, h5.mem[transit_v].y2))

RefineMove(h, vector, px, py, transit_v, closest) ==
    IF closest = NULL THEN RefineEarly(h, vector, px, py, transit_v, closest)
    ELSE RefineSort(h, vector, transit_v, closest, Relink(h, transit_v, closest))

RefineFrom(h, vector, px, py, transit_v) ==
    IF transit_v = NULL THEN RefineEarly(h, vector, px, py, NULL, NULL)
    ELSE RefineMove(h, vector, px, py, transit_v,
                    PriorScan(h, vector, transit_v, BestDistInit, NULL))

\* vector_refine(vector, &px, &py): the heap, the return value, the pen
\* position written back, the locals, or abort (from vector_optimize).
vector_refine(h, vector, px, py) ==
    RefineFrom(h, vector, px, py, LongestScan(h, vector, px, py, 0, NULL))

----------------------------------------------------------------------------
\* The program: vectors_parse fills the store of one pass, generate_vectors
\* sequences it and runs the refinement loop on the chain.

NoTaken == [store |-> << >>, px |-> 0, py |-> 0, best |-> NULL, do_reverse |-> 0]

\* called: vector_refine has been called; gained: some call returned > 0
NoRefine == [before |-> << >>, sx |-> 0, sy |-> 0, transit_v |-> NULL,
             closest |-> NULL, initial |-> 0, new |-> 0, ret |-> 0,
             called |-> FALSE, gained |-> FALSE]

NoCreated == [a |-> Origin, b |-> Origin, before |-> << >>, called |-> FALSE]

Init ==
    /\ mem = [n \in Nodes |-> ZeroNode]
    /\ vectors = NULL
    /\ nalloc = 0
    /\ created = NoCreated
    /\ phase = "parse"
    /\ lx = Origin[1]
    /\ ly = Origin[2]
    /\ loc = NoLocals
    /\ taken = NoTaken
    /\ input = << >>
    /\ rf = NoRefine

\* the store after vector_create is h
CreateTo(h) ==
    /\ mem' = h.mem
    /\ vectors' = h.root
    /\ nalloc' = IF h = Heap THEN nalloc ELSE nalloc + 1

\* vectors_parse, an L or Z line: vector_create(&vectors[pass], a, b)
Create(a, b) ==
    /\ phase = "parse"
    /\ nalloc < MaxSegs \/ CreateScan(Heap, RootSlot, a[1], a[2], b[1], b[2]) = NULL
    /\ CreateTo(vector_create(Heap, nalloc + 1, a[1], a[2], b[1], b[2]))
    /\ created' = [a |-> a, b |-> b, before |-> SegsFrom(Heap, vectors), called |-> TRUE]
    /\ UNCHANGED <<phase, lx, ly, loc, taken, input, rf>>

\* generate_vectors calls vector_optimize on a store that is not empty; the pen
\* is at the origin for the first pass and at p, where the earlier passes left
\* it, for the others
OptimizeEnter(p) ==
    /\ phase = "parse"
    /\ vectors # NULL
    /\ phase' = "optimize"
    /\ lx' = p[1]
    /\ ly' = p[2]
    /\ loc' = [vs |-> NULL, vs_tail |-> NULL, cx |-> p[1], cy |-> p[2]]
    /\ input' = SegsFrom(Heap, vectors)
    /\ created' = NoCreated
    /\ UNCHANGED <<mem, vectors, nalloc, taken, rf>>

\* the pass of the loop left r
OptimizeStepTo(r) ==
    /\ mem' = r.h.mem
    /\ vectors' = r.h.root
    /\ loc' = r.l
    /\ phase' = IF r.abort THEN "aborted" ELSE "optimize"
    /\ taken' = [store |-> SegsFrom(Heap, vectors), px |-> loc.cx, py |-> loc.cy,
                 best |-> r.best, do_reverse |-> r.do_reverse]

\* one pass of vector_optimize's while loop
OptimizeStep ==
    /\ phase = "optimize"
    /\ Load(Heap, RootSlot) # NULL
    /\ OptimizeStepTo(OptimizeIter(Heap, RootSlot, loc))
    /\ UNCHANGED <<nalloc, created, lx, ly, input, rf>>

\* the end of vector_optimize
OptimizeReturn ==
    /\ phase = "optimize"
    /\ Load(Heap, RootSlot) = NULL
    /\ mem' = OptimizeExit(Heap, RootSlot, loc).mem
    /\ vectors' = OptimizeExit(Heap, RootSlot, loc).root
    /\ lx' = loc.cx
    /\ ly' = loc.cy
    /\ loc' = NoLocals
    /\ phase' = "refine"
    /\ UNCHANGED <<nalloc, created, taken, input, rf>>

\* A driver that stops on a negative return value only
RefineOutcomeNegativeOnly(s, r) ==
    [mem |-> r.h.mem, vectors |-> r.h.root,
     rf |-> [before |-> SegsFrom(Heap, vectors), sx |-> s[1], sy |-> s[2],
             transit_v |-> r.transit_v, closest |-> r.closest,
             initial |-> r.initial, new |-> r.new, ret |-> r.ret,
             called |-> TRUE, gained |-> rf.gained \/ (~r.abort /\ r.ret > 0)],
     phase |-> IF r.abort THEN "aborted"
               ELSE IF r.ret < 0 THEN "done" ELSE "refine",
     lx |-> IF ~r.abort /\ r.ret >= 0 THEN r.cx ELSE lx,
     ly |-> IF ~r.abort /\ r.ret >= 0 THEN r.cy ELSE ly]

\* if (vector_refine(...) <= 0) break; lx = sx; ly = sy;
\* what one pass of the loop leaves, r being what vector_refine returned
RefineOutcome(s, r) ==
    [mem |-> r.h.mem, vectors |-> r.h.root,
     rf |-> [before |-> SegsFrom(Heap, vectors), sx |-> s[1], sy |-> s[2],
             transit_v |-> r.transit_v, closest |-> r.closest,
             initial |-> r.initial, new |-> r.new, ret |-> r.ret,
             called |-> TRUE, gained |-> rf.gained \/ (~r.abort /\ r.ret > 0)],
     phase |-> IF r.abort THEN "aborted"
               ELSE IF r.ret <= 0 THEN "done" ELSE "refine",
     lx |-> IF ~r.abort /\ r.ret > 0 THEN r.cx ELSE lx,
     ly |-> IF ~r.abort /\ r.ret > 0 THEN r.cy ELSE ly]

\* the pass of the loop left o
RefineReturn(o) ==
    /\ mem' = o.mem
    /\ vectors' = o.vectors
    /\ rf' = o.rf
    /\ phase' = o.phase
    /\ lx' = o.lx
    /\ ly' = o.ly

\* one pass of the loop from s: vector_refine(vs->vectors, &sx, &sy)
RefinePass(s) == RefineOutcome(s, vector_refine(Heap, vectors, s[1], s[2]))

RefineCall(s) ==
    /\ phase = "refine"
    /\ RefineReturn(RefinePass(s))
    /\ UNCHANGED <<nalloc, created, loc, taken, input>>

\* one pass of the refinement loop
RefineLoop == \E s \in Points : RefineCall(s)

Next ==
    \/ \E a \in Points, b \in Points : Create(a, b)
    \/ \E p \in Points \cup {Origin} : OptimizeEnter(p)
    \/ OptimizeStep
    \/ OptimizeReturn
    \/ RefineLoop

Spec == Init /\ [][Next]_vars

\* What RefineReturn assigns, as it is before the pass
RefineNow ==
    [mem |-> mem, vectors |-> vectors, rf |-> rf, phase |-> phase,
     lx |-> lx, ly |-> ly]

\* ENABLED <<RefineLoop>>_vars: some pass of the loop changes the state
RefineLoopEnabled ==
    /\ phase = "refine"
    /\ \E s \in Points : RefinePass(s) # RefineNow

\* The refinement loop keeps running, no pass of it waits on anything: this is
\* WF_vars(RefineLoop), with ENABLED <<RefineLoop>>_vars written as the state
\* predicate RefineLoopEnabled.
FairSpec == Spec /\ (<>[]RefineLoopEnabled => []<><<RefineLoop>>_vars)

----------------------------------------------------------------------------
\* Vocabulary of the properties

\* The list at vs->vectors: the store while parsing, the chain afterwards
Cur == SegsFrom(Heap, vectors)

\* A segment's endpoints without their direction
Pair(seg) == {seg[1], seg[2]}

Swapped(seg) == <<seg[2], seg[1]>>

Dist2(p, q) == Sq(p[1] - q[1]) + Sq(p[2] - q[2])

Ids(segs) == {segs[i].id : i \in 1..Len(segs)}

\* The position of node n in a list of segments (0 when it is not there)
PosOf(segs, n) ==
    IF \E i \in 1..Len(segs) : segs[i].id = n
    THEN CHOOSE i \in 1..Len(segs) : segs[i].id = n
    ELSE 0

\* segs without its i-th element
Without(segs, i) ==
    [j \in 1..(Len(segs) - 1) |-> IF j < i THEN segs[j] ELSE segs[j + 1]]

\* One list holds the segments of the other, each once, up to reversal
SameSegments(a, b) ==
    /\ Len(a) = Len(b)
    /\ Cardinality(Ids(a)) = Len(a)
    /\ Ids(a) = Ids(b)
    /\ \A i \in 1..Len(a) : Pair(a[i].seg) = Pair(b[PosOf(b, a[i].id)].seg)

NonDegenerate(segs) == \A i \in 1..Len(segs) : segs[i].seg[1] # segs[i].seg[2]

\* vector_optimize (called by generate_vectors) has returned and nothing has
\* touched the chain since
Sequenced == phase = "refine" /\ ~rf.called

\* vector_refine has returned and nothing has touched the chain since
Refined == rf.called /\ phase \in {"refine", "done"}

\* Every node's prev is the slot that points at it
BackRefsConsistent ==
    phase \in {"parse", "refine", "done"} =>
        /\ Len(Cur) = nalloc
        /\ \A i \in 1..Len(Cur) :
              mem[Cur[i].id].prev = IF i = 1 THEN RootSlot ELSE Cur[i - 1].id

\* sqrt() is only ever asked for the root of a square
GridExact ==
    \A p \in Points \cup {Origin}, q \in Points :
        Sq(Sqrt(Dist2(p, q))) = Dist2(p, q)

----------------------------------------------------------------------------
\* C1. Sequencer completeness: for any store of n distinct, non-degenerate
\* segments and any start position, vector_optimize does not abort, drains the
\* store and leaves a chain of exactly n segments that are the input's
\* segments, each once, as inserted or with A and B swapped.
C1_SequencerComplete ==
    NonDegenerate(input) =>
        /\ ~(phase = "aborted" /\ ~rf.called)
        /\ Sequenced => SameSegments(Cur, input)

\* What does hold: a call that returns leaves exactly the input's segments.
C1_CompleteUnlessAborted == Sequenced => SameSegments(Cur, input)

----------------------------------------------------------------------------
\* C2. Degenerate rejection: vector_create(A, A) leaves the size of the store
\* unchanged in every store state, the empty store included, so no store holds
\* a zero-length segment.
C2_DegenerateRejected ==
    /\ created.called /\ created.a = created.b => Len(Cur) = Len(created.before)
    /\ phase = "parse" => NonDegenerate(Cur)

\* What does hold: it is dropped by every store that has a member.
C2_RejectedUnlessEmpty ==
    created.called /\ created.a = created.b /\ created.before # << >>
        => Cur = created.before

----------------------------------------------------------------------------
\* C3. Dedup invariant: no two nodes ever hold the same endpoints in the same
\* or in reversed order, and vector_create of a segment that equals a member
\* or its reverse leaves the store as it was, contents and order.
NoDuplicates ==
    \A m \in 1..nalloc, n \in 1..nalloc :
        m # n => /\ SegOf(Heap, m) # SegOf(Heap, n)
                 /\ SegOf(Heap, m) # Swapped(SegOf(Heap, n))

IsMember(store, a, b) ==
    \E i \in 1..Len(store) : store[i].seg = <<a, b>> \/ store[i].seg = <<b, a>>

C3_Dedup ==
    /\ NoDuplicates
    /\ created.called /\ IsMember(created.before, created.a, created.b)
          => Cur = created.before

\* (A,B) then (B,A) into the empty store: one member
C3_Witness ==
    /\ phase = "parse"
    /\ created.called
    /\ created.a # created.b
    /\ Len(Cur) = 1
    /\ Cur[1].seg = <<created.b, created.a>>

----------------------------------------------------------------------------
\* C4. takeClosest: on a store that is not empty vector_find_closest returns
\* the member owning the endpoint at the least squared distance from the point,
\* the first such endpoint in store order (A before B); the member comes back
\* with that endpoint as its A (swapped exactly when the match was on B), and
\* it alone leaves the store, the others keeping their order.

\* The e-th endpoint met by the scan: A of the first member, B of it, ...
EndOf(store, e) == store[(e + 1) \div 2].seg[IF e % 2 = 1 THEN 1 ELSE 2]

EndDist(t, e) == Dist2(<<t.px, t.py>>, EndOf(t.store, e))

\* The first endpoint at the least distance
Nearest(t) ==
    CHOOSE e \in 1..(2 * Len(t.store)) :
        /\ \A f \in 1..(2 * Len(t.store)) : EndDist(t, e) <= EndDist(t, f)
        /\ \A f \in 1..(e - 1) : EndDist(t, f) > EndDist(t, e)

TakenRight(t, e) ==
    /\ t.best = t.store[(e + 1) \div 2].id
    /\ t.do_reverse = (IF e % 2 = 0 THEN 1 ELSE 0)
    /\ SegOf(Heap, t.best) = IF e % 2 = 0
                             THEN Swapped(t.store[(e + 1) \div 2].seg)
                             ELSE t.store[(e + 1) \div 2].seg
    /\ SegOf(Heap, t.best)[1] = EndOf(t.store, e)
    /\ Cur = Without(t.store, (e + 1) \div 2)

\* a call of vector_find_closest by generate_vectors' vector_optimize has just
\* returned
JustTaken == taken.store # << >> /\ phase \in {"optimize", "aborted"} /\ ~rf.called

\* (stated for stores without zero-length members)
C4_TakeClosest ==
    JustTaken /\ NonDegenerate(taken.store) => TakenRight(taken, Nearest(taken))

\* What does hold: the same, when some endpoint is nearer than sqrt(1e9).
C4_TakeClosestNear ==
    JustTaken /\ EndDist(taken, Nearest(taken)) < BestDistInit
        => TakenRight(taken, Nearest(taken))

----------------------------------------------------------------------------
\* C5. Sequencer termination without failure: vector_find_closest returns NULL
\* only for the empty store, however far the segments lie from the point, so
\* vector_optimize never reaches abort().
\* (stated for stores without zero-length members)
C5_NeverNothingClose ==
    NonDegenerate(input) =>
        /\ phase # "aborted"
        /\ taken.store # << >> => taken.best # NULL

\* What does hold: NULL comes back exactly when no endpoint is nearer than
\* sqrt(1e9).
C5_NullIffAllFar ==
    JustTaken =>
        (taken.best = NULL <=> EndDist(taken, Nearest(taken)) >= BestDistInit)

----------------------------------------------------------------------------
\* The total transit of a list of segments, the pen starting at the origin
RECURSIVE TransitFrom(_, _, _)
TransitFrom(segs, i, pen) ==
    IF i > Len(segs) THEN 0
    ELSE Sqrt(Dist2(pen, segs[i].seg[1])) + TransitFrom(segs, i + 1, segs[i].seg[2])

Transit(segs) == TransitFrom(segs, 1, Origin)

\* C6. Refine non-negativity: the total transit of the chain after a call of
\* vector_refine is not greater than before it; the value returned is never
\* negative.
\* (stated for chains without zero-length segments)
C6_NeverWorse ==
    Refined /\ NonDegenerate(rf.before) =>
        rf.ret >= 0 /\ Transit(Cur) <= Transit(rf.before)

\* C6 as amended: the value returned is the total transit before the call less
\* the total after it, whatever its sign, and it is 0 with the chain untouched
\* when no T or no C is found.
C6_ReductionIsMeasured ==
    Refined =>
        /\ rf.ret = Transit(rf.before) - Transit(Cur)
        /\ rf.closest = NULL => rf.ret = 0 /\ Cur = rf.before

\* a call that moved T and made the total transit longer
C6_Witness ==
    /\ Refined
    /\ NonDegenerate(rf.before)
    /\ rf.closest # NULL
    /\ rf.ret < 0
    /\ Transit(Cur) > Transit(rf.before)

----------------------------------------------------------------------------
\* C7. Refine loop termination: the loop that calls vector_refine until it
\* returns a value <= 0 stops.
C7_RefineLoopStops == (phase = "refine") ~> (phase \in {"done", "aborted"})

\* the loop has stopped after a call that reported a reduction
C7_Witness == phase = "done" /\ rf.gained

----------------------------------------------------------------------------
\* Step 2 of vector_refine, read off the chain as it was on entry

TPos == PosOf(rf.before, rf.transit_v)

\* squared distance from the B of the i-th segment to the A of T
GapTo(i) == Dist2(rf.before[i].seg[2], rf.before[TPos].seg[1])

\* the segments before T whose B is nearest to T's A
NearestPrior == {i \in 1..(TPos - 1) : \A j \in 1..(TPos - 1) : GapTo(i) <= GapTo(j)}

FirstOf(S) == CHOOSE i \in S : \A j \in S : i <= j

LastOf(S) == CHOOSE i \in S : \A j \in S : i >= j

\* C8. Tie-break of step 2: of several segments before T that are equally
\* near, the first in chain order becomes C.
\* (stated for chains without zero-length segments)
C8_FirstWins ==
    rf.called /\ rf.closest # NULL /\ NonDegenerate(rf.before) =>
        rf.closest = rf.before[FirstOf(NearestPrior)].id

\* C8 as amended: the last of them in chain order becomes C, as long as that
\* least squared distance is at most 1e9; beyond it, and when nothing precedes
\* T, there is no C.
C8_LastWins ==
    rf.called /\ rf.transit_v # NULL =>
        IF TPos > 1 /\ GapTo(LastOf(NearestPrior)) <= BestDistInit
        THEN rf.closest = rf.before[LastOf(NearestPrior)].id
        ELSE rf.closest = NULL

\* two segments before T are equally near and the later one is C
C8_Witness ==
    /\ rf.called
    /\ NonDegenerate(rf.before)
    /\ rf.closest # NULL
    /\ Cardinality(NearestPrior) >= 2
    /\ rf.closest = rf.before[LastOf(NearestPrior)].id

----------------------------------------------------------------------------
CPos == PosOf(rf.before, rf.closest)

\* C9. Refine frame: when T is moved behind C, the chain from its head through
\* C is as it was (same nodes, order and directions) and T follows C with its
\* direction unchanged; only what now comes after T may be reordered or
\* reversed.
C9_Frame ==
    Refined /\ rf.closest # NULL =>
        /\ \A i \in 1..CPos : Cur[i] = rf.before[i]
        /\ Cur[CPos + 1] = rf.before[TPos]

\* T was not right behind C: what lay between them now follows T
C9_Witness ==
    /\ Refined
    /\ NonDegenerate(rf.before)
    /\ rf.closest # NULL
    /\ TPos > CPos + 1
    /\ Cur[CPos + 2].id = rf.before[CPos + 1].id

----------------------------------------------------------------------------
\* C10. Refine conserves segments: whatever vector_refine returns, the list
\* from the same head ends (no cycle) and holds exactly the segments it held
\* on entry, each once, up to reversal.
C10_Conserved ==
    Refined =>
        /\ Len(Cur) <= MaxSegs
        /\ Cur[1].id = rf.before[1].id
        /\ SameSegments(Cur, rf.before)

\* C was T's immediate predecessor, with more of the chain behind T
C10_Witness ==
    /\ Refined
    /\ NonDegenerate(rf.before)
    /\ rf.closest # NULL
    /\ TPos = CPos + 1
    /\ TPos < Len(rf.before)

====
